---- MODULE Spec2Model ----
(***************************************************************************)
(* The Sym. Encrypted Integrity Protected Data packet (tag 18) of          *)
(* OpenPGP.js and its chunked AEAD engine runAEAD                          *)
(* (src/unnamed/part_001), as a state machine.                             *)
(*                                                                         *)
(* One packet object is followed through its life: it is built by          *)
(* fromObject and given its inner packets, encrypt() is called, the        *)
(* result is serialised by write(), the bytes may be altered in transit,   *)
(* read() parses them and decrypt() is called.  runAEAD is modelled step   *)
(* by step: every await of its loop, of its write chain and of the         *)
(* chunks' cryptographic calls is a separate action, so that all           *)
(* interleavings the event loop allows are explored.                       *)
(*                                                                         *)
(* Bytes are symbolic.  A byte is a tuple whose first element is its       *)
(* kind:                                                                   *)
(*   <<"b", v>>          a plain byte of value v                           *)
(*   <<"x", 0>>          a byte that is not what any party produced        *)
(*   <<"c", v>>          AEAD ciphertext byte of plain value v             *)
(*   <<"t", k, n, a, p>> first byte of the AEAD tag of plaintext p under   *)
(*                       key k, nonce n and associated data a              *)
(*   <<"p", j>>          j-th byte of an AEAD tag, j > 1                   *)
(*   <<"f", id, b>>      CFB ciphertext of byte b under session key id     *)
(*   <<"h", s>>          first byte of the SHA-1 digest of s               *)
(*   <<"q", j>>          j-th byte of a SHA-1 digest, j > 1                *)
(*   <<"u", 0>>          the single element of an undefined byte array     *)
(***************************************************************************)
EXTENDS Integers, Sequences, FiniteSets, TLC

VARIABLES pkt, stage, call, err, wire, sent, src, eng, ops, chain, sink, out, parser,
          rand, used, ctr, mac

vars == <<pkt, stage, call, err, wire, sent, src, eng, ops, chain, sink, out, parser,
          rand, used, ctr, mac>>

----------------------------------------------------------------------------
(* Bounds of the model *)

\* inner plaintexts of version 2 packets have 0, 1 or k * 64 + {-1, 0, 1} bytes, k <= MaxChunks
MaxChunks == 2
\* config.aeadChunkSizeByte
AeadChunkSizeByte == 0
\* length of the authentication tag of the AEAD mode (mode.tagLength)
TagLength == 2
\* util.getHardwareConcurrency()
HardwareConcurrency == 1
\* what getRandomBytes and getPrefixRandom draw
RandomSeed == 1
\* a streamed input arrives in pieces of PieceLen or 3 * PieceLen bytes
PieceLen == 50
\* plaintexts of the version 1 packets have at most MaxLegacyLen bytes
MaxLegacyLen == 1
\* encrypt is called at most MaxEncrypts times on one packet
MaxEncrypts == 2
\* the longest plaintext of the encrypt calls checked alone has LongChunks
\* chunks of the smallest chunk size and LongRest bytes more
LongChunks == 3
LongRest == 8
\* the chunk counter at its full width is advanced MaxAdvance times from
\* each of its starting values
MaxAdvance == 40
\* the MAC function is called at most MaxMacCalls times on one array, whose
\* contents are one of MaxMacSeed + 1 patterns
MaxMacCalls == 3
MaxMacSeed == 2

(* Constants of the program *)

\* const blockLength = 16 of cmac.js
BlockLength == 16

\* chunk size is 2 ** (chunkSizeByte + 6)
ChunkSizeShift == 6
\* the salt of a version 2 packet
SaltLength == 32
\* length of the SHA-1 digest that ends a version 1 plaintext
DigestLength == 20

----------------------------------------------------------------------------
(* Values *)

None == <<>>
Some(x) == <<x>>
IsSome(o) == o # <<>>
\* what readByte returns at the end of the input
Undef == -1
\* what readBytes returns at the end of the input
UndefBytes == << <<"u", 0>> >>

B(v) == <<"b", v>>
Garbage == <<"x", 0>>
\* the numeric value of a byte
Num(b) == IF b[1] = "b" THEN b[2] ELSE 170

Min(a, b) == IF a < b THEN a ELSE b
Max(a, b) == IF a > b THEN a ELSE b

RECURSIVE Pow2(_)
Pow2(n) == IF n <= 0 THEN 1 ELSE 2 * Pow2(n - 1)

RECURSIVE Flatten(_)
Flatten(ss) == IF ss = <<>> THEN <<>> ELSE Head(ss) \o Flatten(Tail(ss))

\* TypedArray.prototype.subarray(begin, end): negative indices count from the
\* end, both are clamped to the array
ClampIndex(i, n) == IF i < 0 THEN Max(n + i, 0) ELSE Min(i, n)
Subarray(s, begin, end) ==
  LET b == ClampIndex(begin, Len(s))
      e == ClampIndex(end, Len(s))
  IN  IF e <= b THEN <<>> ELSE SubSeq(s, b + 1, e)
SubarrayFrom(s, begin) == Subarray(s, begin, Len(s))

----------------------------------------------------------------------------
(* The collaborators of the packet: cipher parameters, random bytes, SHA-1,
   CFB, HKDF and the AEAD mode *)

\* enums.symmetric: aes128 = 7, aes256 = 9
Ciphers == {7, 9}
\* enums.aead: eax = 1, gcm = 3
AeadAlgos == {1, 3}
KeySize(alg) == IF alg = 7 THEN 16 ELSE 32
BlockSize(alg) == 16

\* session keys: an identity and a length; the sender holds the first and the last
Keys == {[id |-> 1, len |-> 16], [id |-> 2, len |-> 16], [id |-> 3, len |-> 32]}
SenderKeys == {k \in Keys : k.id # 2}

RandomBytes(seed, n) == [i \in 1..n |-> B((seed * 16 + i) % 256)]
\* a random block followed by a repetition of its last two bytes
PrefixRandom(alg, seed) ==
  LET r == RandomBytes(seed, BlockSize(alg))
  IN  r \o SubSeq(r, BlockSize(alg) - 1, BlockSize(alg))

Sha1(s) == [j \in 1..DigestLength |-> IF j = 1 THEN <<"h", s>> ELSE <<"q", j>>]

CfbEncrypt(key, pt) == [i \in 1..Len(pt) |-> <<"f", key.id, pt[i]>>]
CfbDecrypt(key, ct) ==
  [i \in 1..Len(ct) |->
     IF ct[i][1] = "f" /\ ct[i][2] = key.id THEN ct[i][3] ELSE Garbage]

Hkdf(key, salt, info) == <<key.id, salt, info>>

AeadEncrypt(key, nonce, adata, pt) ==
  [j \in 1..(Len(pt) + TagLength) |->
     IF j <= Len(pt) THEN <<"c", Num(pt[j])>>
     ELSE IF j = Len(pt) + 1 THEN <<"t", key, nonce, adata, pt>>
     ELSE <<"p", j - Len(pt)>>]

\* the plaintext a ciphertext body stands for (only meaningful when genuine)
AeadBody(ct) == [j \in 1..(Len(ct) - TagLength) |-> B(IF ct[j][1] = "c" THEN ct[j][2] ELSE 0)]
AeadVerifies(key, nonce, adata, ct) ==
  /\ Len(ct) >= TagLength
  /\ ct = AeadEncrypt(key, nonce, adata, AeadBody(ct))
AeadDecrypt(key, nonce, adata, ct) ==
  IF AeadVerifies(key, nonce, adata, ct)
  THEN [ok |-> TRUE, bytes |-> AeadBody(ct)]
  ELSE [ok |-> FALSE, bytes |-> <<>>]

----------------------------------------------------------------------------
(* The packet *)

NewPacket ==
  [version |-> None, cipherAlgorithm |-> None, aeadAlgorithm |-> None,
   chunkSizeByte |-> None, salt |-> None, encrypted |-> None, packets |-> None]

FromObject(version, aeadAlgorithm) ==
  [NewPacket EXCEPT !.version = Some(version),
                    !.aeadAlgorithm = IF version = 2 THEN Some(aeadAlgorithm) ELSE None]

\* one-octet fields as Uint8Array elements: null and undefined are stored as 0
Octet(o) == IF IsSome(o) /\ o[1] >= 0 THEN B(o[1] % 256) ELSE B(0)
OptBytes(o) == IF IsSome(o) /\ o[1] # UndefBytes THEN o[1] ELSE <<>>

\* the bytes packet.encrypted stands for: its own, or the output of the engine
EncryptedBytes(p, o) ==
  IF ~IsSome(p.encrypted) THEN <<>>
  ELSE IF p.encrypted[1].form = "engine" THEN o.bytes
  ELSE p.encrypted[1].bytes

\* a write that emits the AEAD algorithm before the cipher algorithm
WriteSwapped(p, o) ==
  IF p.version = Some(2)
  THEN <<Octet(p.version), Octet(p.aeadAlgorithm), Octet(p.cipherAlgorithm),
         Octet(p.chunkSizeByte)>> \o OptBytes(p.salt) \o EncryptedBytes(p, o)
  ELSE <<Octet(p.version)>> \o EncryptedBytes(p, o)

\* write(), lines 115-120
Write(p, o) ==
  IF p.version = Some(2)
  THEN <<Octet(p.version), Octet(p.cipherAlgorithm), Octet(p.aeadAlgorithm),
         Octet(p.chunkSizeByte)>> \o OptBytes(p.salt) \o EncryptedBytes(p, o)
  ELSE <<Octet(p.version)>> \o EncryptedBytes(p, o)

\* reader.readByte() at offset i (0-based): undefined at the end of the input
ReadByteAt(body, i) == IF Len(body) > i THEN Num(body[i + 1]) ELSE Undef
\* reader.readBytes(n) at offset i: what is left when fewer than n bytes are,
\* undefined when none is
ReadBytesAt(body, i, n) ==
  IF Len(body) > i THEN SubSeq(body, i + 1, Min(i + n, Len(body))) ELSE UndefBytes
Remainder(body, i, form) ==
  [form |-> form, bytes |-> IF Len(body) > i THEN SubSeq(body, i + 1, Len(body)) ELSE <<>>]

\* read(), lines 85-113: the packet it leaves and the error it throws ("" for none)
UnsupportedVersionError == "Version of the SEIP packet is unsupported."
ReadVersion(p, body) == [p EXCEPT !.version = Some(ReadByteAt(body, 0))]
Read(p, body, form) ==
  LET p1 == ReadVersion(p, body)
      v  == p1.version[1]
  IN  IF v # 1 /\ v # 2 THEN [pkt |-> p1, err |-> UnsupportedVersionError]
      ELSE IF v = 2
      THEN [pkt |-> [p1 EXCEPT !.cipherAlgorithm = Some(ReadByteAt(body, 1)),
                               !.aeadAlgorithm = Some(ReadByteAt(body, 2)),
                               !.chunkSizeByte = Some(ReadByteAt(body, 3)),
                               !.salt = Some(ReadBytesAt(body, 4, SaltLength)),
                               !.encrypted = Some(Remainder(body, 4 + SaltLength, form))],
            err |-> ""]
      ELSE [pkt |-> [p1 EXCEPT !.encrypted = Some(Remainder(body, 1, form))],
            err |-> ""]

----------------------------------------------------------------------------
(* runAEAD, lines 242-349 *)

EngOff ==
  [pc |-> "off", fn |-> "none", key |-> <<>>, ivHi |-> 0, ivLo |-> 0,
   adata |-> <<>>, lenHi |-> 0, lenLo |-> 0, chunkIndex |-> 0, cryptedBytes |-> 0,
   queuedBytes |-> 0, chunkSize |-> 0, tagDec |-> 0, tagEnc |-> 0, hwm |-> 0,
   done |-> FALSE]
SrcOff == [mode |-> "none", form |-> "array", bytes |-> <<>>, avail |-> 0, pos |-> 0,
           key |-> <<>>, blockSize |-> 0]
ChainOff == [done |-> 0, writing |-> FALSE]
SinkOff == [kind |-> "none", state |-> "open", inflight |-> None, pushed |-> <<>>,
            writes |-> <<>>]
OutOff == [state |-> "none", bytes |-> <<>>, err |-> ""]
ParserOff == [state |-> "idle", delayErrors |-> FALSE]

\* DataView.setInt32 of a value the model keeps below 2^31 stores it as it is
Int32(x) == x

\* the packet tag of the Sym. Encrypted Integrity Protected Data packet
PacketTag == 18
\* adataArray.set([0xC0 | tag, version, cipherAlgorithm, aeadAlgorithm, chunkSizeByte]), line 260
AdataOf(p) ==
  <<192 + PacketTag, p.version[1], p.cipherAlgorithm[1], p.aeadAlgorithm[1],
    p.chunkSizeByte[1]>>

\* the locals of runAEAD with a chunk size that leaves the tag out when decrypting
EngineStartNoTag(p, fn, key) ==
  LET tagDec == IF fn = "decrypt" THEN TagLength ELSE 0
      tagEnc == IF fn = "encrypt" THEN TagLength ELSE 0
      derived == Hkdf(key, p.salt[1], AdataOf(p))
  IN  [pc |-> "read", fn |-> fn, key |-> derived,
       ivHi |-> 0, ivLo |-> 0, adata |-> AdataOf(p), lenHi |-> 0, lenLo |-> 0,
       chunkIndex |-> 0, cryptedBytes |-> 0, queuedBytes |-> 0,
       chunkSize |-> Pow2(p.chunkSizeByte[1] + ChunkSizeShift),
       tagDec |-> tagDec, tagEnc |-> tagEnc,
       hwm |-> HardwareConcurrency * Pow2(p.chunkSizeByte[1] + ChunkSizeShift),
       done |-> FALSE]

\* the locals of runAEAD with a chunk size that counts the tag in both directions
EngineStartTagBoth(p, fn, key) ==
  LET tagDec == IF fn = "decrypt" THEN TagLength ELSE 0
      tagEnc == IF fn = "encrypt" THEN TagLength ELSE 0
      derived == Hkdf(key, p.salt[1], AdataOf(p))
  IN  [pc |-> "read", fn |-> fn, key |-> derived,
       ivHi |-> 0, ivLo |-> 0, adata |-> AdataOf(p), lenHi |-> 0, lenLo |-> 0,
       chunkIndex |-> 0, cryptedBytes |-> 0, queuedBytes |-> 0,
       chunkSize |-> Pow2(p.chunkSizeByte[1] + ChunkSizeShift) + TagLength,
       tagDec |-> tagDec, tagEnc |-> tagEnc,
       hwm |-> HardwareConcurrency * Pow2(p.chunkSizeByte[1] + ChunkSizeShift),
       done |-> FALSE]

\* lines 250-280: the locals of runAEAD before its loop starts
EngineStart(p, fn, key) ==
  LET tagDec == IF fn = "decrypt" THEN TagLength ELSE 0
      tagEnc == IF fn = "encrypt" THEN TagLength ELSE 0
      derived == Hkdf(key, p.salt[1], AdataOf(p))
  IN  [pc |-> "read", fn |-> fn, key |-> derived,
       ivHi |-> 0, ivLo |-> 0, adata |-> AdataOf(p), lenHi |-> 0, lenLo |-> 0,
       chunkIndex |-> 0, cryptedBytes |-> 0, queuedBytes |-> 0,
       chunkSize |-> Pow2(p.chunkSizeByte[1] + ChunkSizeShift) + tagDec,
       tagDec |-> tagDec, tagEnc |-> tagEnc,
       hwm |-> HardwareConcurrency * Pow2(p.chunkSizeByte[1] + ChunkSizeShift),
       done |-> FALSE]

\* a nonce that does not carry the chunk counter
NonceFixed(e) == <<0, 0>>

\* a call that reads the iv buffer only after the counter of the next chunk
\* has been written into it
NonceAfterAdvance(e) == <<e.ivHi, e.ivLo + 1>>

\* a length field that holds the number of chunks instead of the number of bytes
AdataTagArrayCount(e) == e.adata \o <<e.lenHi, e.chunkIndex>>

\* the nonce of the next cryptographic call: the last 8 bytes of the iv buffer
\* as they are now (the bytes before them are HKDF output, like the key)
NonceOf(e) == <<e.ivHi, e.ivLo>>
\* adataArray (5 bytes) and adataTagArray (13 bytes) as they are now
AdataArray(e) == e.adata
AdataTagArray(e) == e.adata \o <<e.lenHi, e.lenLo>>

\* modeInstance[fn](data, nonce, adata)
Crypt(fn, key, nonce, adata, data) ==
  IF fn = "encrypt"
  THEN [ok |-> TRUE, bytes |-> AeadEncrypt(key, nonce, adata, data)]
  ELSE AeadDecrypt(key, nonce, adata, data)

\* writer.desiredSize: undefined for the writer of an ArrayStream, null once
\* the stream is errored, 0 once it is closed
InflightLen(s) == IF IsSome(s.inflight) THEN Len(s.inflight[1]) ELSE 0
Backpressure(q, s, hwm) ==
  /\ s.kind = "stream"
  /\ q > (IF s.state = "open" THEN hwm - InflightLen(s) ELSE 0)

\* an abort that leaves the sink as it is
AbortSinkIgnored(s) == s

\* writer.abort(e)
AbortSink(s) == IF s.state = "open" THEN [s EXCEPT !.state = "errored", !.inflight = None] ELSE s
AbortOut(s, o, e) == IF s.state = "open" THEN [o EXCEPT !.state = "errored", !.err = e] ELSE o

\* lines 333-338: the counter of the next chunk
Advance(e) ==
  [e EXCEPT !.pc = "read", !.chunkIndex = e.chunkIndex + 1,
            !.ivLo = Int32(e.chunkIndex + 1)]

\* a readBytes that returns whatever has arrived
CanReadAny(n) == src.avail > src.pos \/ src.avail = Len(src.bytes)

\* a readBytes that does not return at the end of the input
CanReadFull(n) == src.avail - src.pos >= n

\* the source has what reader.readBytes(n) waits for
CanRead(n) == src.avail - src.pos >= n \/ src.avail = Len(src.bytes)

\* lines 294-338: one iteration of the loop up to its next await
EngineRead ==
  /\ eng.pc = "read"
  /\ CanRead(eng.chunkSize + eng.tagDec)
  /\ LET got == SubSeq(src.bytes, src.pos + 1,
                       Min(src.pos + eng.chunkSize + eng.tagDec, src.avail))
         finalChunk == SubarrayFrom(got, Len(got) - eng.tagDec)
         chunk == Subarray(got, 0, Len(got) - eng.tagDec)
         isData == eng.chunkIndex = 0 \/ Len(chunk) > 0
         e1 == IF isData THEN eng ELSE [eng EXCEPT !.lenLo = Int32(eng.cryptedBytes)]
         res == IF isData
                THEN Crypt(eng.fn, eng.key, NonceOf(e1), AdataArray(e1), chunk)
                ELSE Crypt(eng.fn, eng.key, NonceOf(e1), AdataTagArray(e1), finalChunk)
         op == [settled |-> FALSE, ok |-> res.ok, bytes |-> res.bytes,
                final |-> ~isData, nonce |-> NonceOf(e1),
                adata |-> IF isData THEN AdataArray(e1) ELSE AdataTagArray(e1),
                inLen |-> IF isData THEN Len(chunk) ELSE Len(finalChunk)]
         q == eng.queuedBytes + (IF isData THEN Len(chunk) - eng.tagDec ELSE 0) + eng.tagEnc
         e2 == [e1 EXCEPT !.queuedBytes = q,
                          !.cryptedBytes = eng.cryptedBytes + Len(chunk) - eng.tagDec,
                          !.done = ~isData]
     IN  /\ src' = [src EXCEPT !.pos = src.pos + Len(got) - (IF isData THEN Len(finalChunk) ELSE 0)]
         /\ ops' = Append(ops, op)
         /\ used' = IF eng.fn = "encrypt" THEN Append(used, <<eng.key, op.nonce>>) ELSE used
         /\ eng' = IF ~isData \/ Backpressure(q, sink, eng.hwm)
                   THEN [e2 EXCEPT !.pc = "awaitChain"]
                   ELSE Advance(e2)
  /\ UNCHANGED <<pkt, stage, call, err, wire, sent, chain, sink, out, parser, rand, ctr, mac>>

\* the cryptographic call of chunk n settles
CryptoSettle(n) ==
  /\ n \in 1..Len(ops)
  /\ ~ops[n].settled
  /\ ops' = [ops EXCEPT ![n].settled = TRUE]
  /\ UNCHANGED <<pkt, stage, call, err, wire, sent, src, eng, chain, sink, out, parser, rand, used, ctr, mac>>

AeadError == "Authentication tag mismatch"

\* lines 325-329: the link of the write chain of the next chunk, up to the
\* await of writer.write (a stream) or to its end (an ArrayStream, a failure)
ChainStep ==
  /\ ~chain.writing
  /\ chain.done < Len(ops)
  /\ LET n == chain.done + 1
     IN  /\ ops[n].settled
         /\ IF ~ops[n].ok
            THEN /\ sink' = AbortSink(sink)
                 /\ out' = AbortOut(sink, out, AeadError)
                 /\ chain' = [chain EXCEPT !.done = n]
                 /\ eng' = eng
            ELSE IF sink.kind = "array"
            THEN /\ sink' = [sink EXCEPT !.pushed = sink.pushed \o ops[n].bytes,
                                         !.writes = Append(sink.writes, n)]
                 /\ out' = out
                 /\ chain' = [chain EXCEPT !.done = n]
                 /\ eng' = [eng EXCEPT !.queuedBytes = eng.queuedBytes - Len(ops[n].bytes)]
            ELSE IF sink.state # "open"
            THEN /\ sink' = sink
                 /\ out' = out
                 /\ chain' = [chain EXCEPT !.done = n]
                 /\ eng' = eng
            ELSE /\ sink' = [sink EXCEPT !.inflight = Some(ops[n].bytes)]
                 /\ out' = out
                 /\ chain' = [chain EXCEPT !.writing = TRUE]
                 /\ eng' = eng
  /\ UNCHANGED <<pkt, stage, call, err, wire, sent, src, ops, parser, rand, used, ctr, mac>>

\* the consumer of the output stream takes the chunk being written:
\* writer.write resolves and the link ends, line 328
SinkConsume ==
  /\ chain.writing
  /\ IsSome(sink.inflight)
  /\ LET n == chain.done + 1
     IN  /\ sink' = [sink EXCEPT !.inflight = None, !.writes = Append(sink.writes, n)]
         /\ out' = [out EXCEPT !.bytes = out.bytes \o sink.inflight[1]]
         /\ chain' = [done |-> n, writing |-> FALSE]
         /\ eng' = [eng EXCEPT !.queuedBytes = eng.queuedBytes - Len(sink.inflight[1])]
  /\ UNCHANGED <<pkt, stage, call, err, wire, sent, src, ops, parser, rand, used, ctr, mac>>

\* a close that overrides an earlier abort
CloseSinkAlways(s) == [s EXCEPT !.state = "closed"]

\* writer.close(), line 340, and the catch of lines 344-347 when it rejects
CloseSink(s) == IF s.state = "open" THEN [s EXCEPT !.state = "closed"] ELSE s
CloseOut(s, o) ==
  IF s.state = "open"
  THEN [o EXCEPT !.state = "ended",
                 !.bytes = IF s.kind = "array" THEN s.pushed ELSE o.bytes]
  ELSE o

\* a loop that goes on without awaiting latestPromise
ChainNotAwaited == TRUE

\* latestPromise has settled: every link of the write chain has ended
ChainSettled == chain.done = Len(ops)

\* lines 330-342: await latestPromise is over
EngineResume ==
  /\ eng.pc = "awaitChain"
  /\ ChainSettled
  /\ IF eng.done
     THEN /\ eng' = [eng EXCEPT !.pc = "done"]
          /\ sink' = CloseSink(sink)
          /\ out' = CloseOut(sink, out)
     ELSE /\ eng' = Advance(eng)
          /\ UNCHANGED <<sink, out>>
  /\ UNCHANGED <<pkt, stage, call, err, wire, sent, src, ops, chain, parser, rand, used, ctr, mac>>

\* a piece of a streamed input arrives
SrcDeliver(k) ==
  /\ src.mode = "aead"
  /\ src.form = "stream"
  /\ src.avail < Len(src.bytes)
  /\ src' = [src EXCEPT !.avail = Min(src.avail + k, Len(src.bytes))]
  /\ UNCHANGED <<pkt, stage, call, err, wire, sent, eng, ops, chain, sink, out, parser, rand, used, ctr, mac>>

----------------------------------------------------------------------------
(* The version 1 path: CFB with a trailing SHA-1 digest *)

ModificationDetected == "Modification detected."
KeySizeError == "Unexpected session key size"
KeyAlgorithmError == "Unexpected session key algorithm"

\* lines 152-159
LegacyEncrypt(alg, key, bytes, seed) ==
  LET prefix == PrefixRandom(alg, seed)
      mdc == <<B(211), B(20)>>
      tohash == prefix \o bytes \o mdc
  IN  CfbEncrypt(key, tohash \o Sha1(tohash))

\* lines 200-201
RealHash(decrypted) == SubarrayFrom(decrypted, 0 - DigestLength)
ToHash(decrypted) == Subarray(decrypted, 0, 0 - DigestLength)
\* a comparison of the lengths of the two digests only
HashLengthMatches(decrypted) == Len(Sha1(ToHash(decrypted))) = Len(RealHash(decrypted))

\* lines 203-208
HashMatches(decrypted) == Sha1(ToHash(decrypted)) = RealHash(decrypted)
\* lines 213-214
LegacyPacketBytes(decrypted, blockSize) ==
  Subarray(SubarrayFrom(ToHash(decrypted), blockSize + 2), 0, 0 - 2)

----------------------------------------------------------------------------
(* The calls made on the packet *)

Plain(n) == [i \in 1..n |-> B(i % 256)]
ChunkLen0 == Pow2(ChunkSizeShift)
PlainLens(version) ==
  IF version = 2
  THEN {0, 1} \cup {k * ChunkLen0 + d : k \in 1..MaxChunks, d \in {0 - 1, 0, 1}}
  ELSE 0..MaxLegacyLen

NoKey == [id |-> 0, len |-> 0]
NoCall == [op |-> "none", alg |-> 0, key |-> NoKey, allow |-> FALSE]
Parsed == [kind |-> "parsed", bytes |-> <<>>]

\* chunkIndex at its full width: a JavaScript number, held here as the 8 bytes
\* of its 64-bit big-endian form (the values stay far below 2^53)
Wide0 == <<0, 0, 0, 0, 0, 0, 0, 0>>
\* ++chunkIndex
RECURSIVE WideInc(_)
WideInc(w) ==
  IF w = <<>> THEN <<>>
  ELSE IF w[Len(w)] < 255 THEN [w EXCEPT ![Len(w)] = @ + 1]
  ELSE Append(WideInc(SubSeq(w, 1, Len(w) - 1)), 0)

\* a counter written with setInt64(iv.length - 8, chunkIndex)
CounterWrite64(iv, w) == w

\* ivView.setInt32(iv.length - 4, chunkIndex), line 335, on the last 8 bytes
\* of iv: the low 32 bits of the number go into the last 4 bytes
CounterWrite(iv, w) ==
  [i \in 1..Len(iv) |-> IF i > Len(iv) - 4 THEN w[Len(w) - Len(iv) + i] ELSE iv[i]]

\* line 274: iv.fill(0, iv.length - 8), and chunkIndex = 0
CtrOff == [chunkIndex |-> Wide0, iv |-> Wide0, steps |-> 0]
\* the loop after the advance to chunk k
CounterAt(k) ==
  [chunkIndex |-> k, iv |-> IF k = Wide0 THEN Wide0 ELSE CounterWrite(Wide0, k),
   steps |-> 0]

\* no key and no message have been given to CMAC
MacOff == [key |-> 0, data |-> <<>>, orig |-> <<>>, calls |-> <<>>]

\* the state after construction of a packet that holds n bytes of packets
InitWith(version, aead, n) ==
  /\ pkt = [FromObject(version, aead) EXCEPT
              !.packets = Some([kind |-> "plain", bytes |-> Plain(n)])]
  /\ sent = [plain |-> Plain(n), alg |-> 0, key |-> NoKey, tamper |-> "none"]
  /\ stage = "fresh"
  /\ call = NoCall
  /\ err = ""
  /\ wire = <<>>
  /\ src = SrcOff
  /\ eng = EngOff
  /\ ops = <<>>
  /\ chain = ChainOff
  /\ sink = SinkOff
  /\ out = OutOff
  /\ parser = ParserOff
  /\ rand = 0
  /\ used = <<>>
  /\ ctr = CtrOff
  /\ mac = MacOff

Init ==
  \E version \in {1, 2}, aead \in AeadAlgos :
     \E n \in PlainLens(version) : InitWith(version, aead, n)

\* a check that only rejects keys that are too short
KeySizeAtLeast(alg, key) == key.len >= KeySize(alg)

\* lines 137-140 and 179-181
KeySizeOk(alg, key) == key.len = KeySize(alg)

\* an encrypt that keeps the salt the packet holds
KeptSalt(p, n) ==
  IF IsSome(p.salt) THEN p.salt[1] ELSE RandomBytes(RandomSeed + n, SaltLength)

\* line 148: getRandomBytes(32), the n-th draw of a generator that never repeats
FreshSalt(p, n) == RandomBytes(RandomSeed + n, SaltLength)

\* encrypt(), lines 131-162
Encrypt(alg, key, form) ==
  /\ IsSome(pkt.packets)
  /\ call' = [op |-> "encrypt", alg |-> alg, key |-> key, allow |-> FALSE]
  /\ IF ~KeySizeOk(alg, key)
     THEN /\ err' = KeySizeError
          /\ UNCHANGED <<pkt, stage, wire, sent, src, eng, ops, chain, sink, out, parser,
                         rand>>
     ELSE /\ sent' = [sent EXCEPT !.alg = alg, !.key = key]
          /\ LET bytes == pkt.packets[1].bytes
                 p1 == [pkt EXCEPT !.cipherAlgorithm = Some(alg),
                                   !.salt = Some(FreshSalt(pkt, rand)),
                                   !.chunkSizeByte = Some(AeadChunkSizeByte),
                                   !.encrypted = Some([form |-> "engine", bytes |-> <<>>])]
             IN  IF pkt.version = Some(2)
                 THEN /\ pkt' = p1
                      /\ eng' = EngineStart(p1, "encrypt", key)
                      /\ src' = [SrcOff EXCEPT !.mode = "aead", !.form = form, !.bytes = bytes,
                                               !.avail = IF form = "array" THEN Len(bytes) ELSE 0]
                      /\ sink' = [SinkOff EXCEPT !.kind = form]
                      /\ out' = [OutOff EXCEPT !.state = "open"]
                      /\ ops' = <<>>
                      /\ chain' = ChainOff
                 ELSE /\ pkt' = [pkt EXCEPT !.encrypted =
                                   Some([form |-> "array",
                                         bytes |-> LegacyEncrypt(alg, key, bytes,
                                                                 RandomSeed + rand)])]
                      /\ UNCHANGED <<src, eng, ops, chain, sink, out>>
          /\ err' = ""
          /\ stage' = "encrypted"
          /\ rand' = rand + 1
          /\ UNCHANGED <<wire, parser>>
  /\ UNCHANGED <<used, ctr, mac>>

\* the first encrypt call on the packet
EncryptCall(alg, key, form) ==
  /\ stage = "fresh"
  /\ Encrypt(alg, key, form)

EngineIdle == eng.pc \in {"off", "done"}

\* a further encrypt call on the same packet, once the earlier one is over
EncryptAgain(alg, key, form) ==
  /\ stage = "encrypted"
  /\ EngineIdle
  /\ eng.pc = "done" => out.state = "ended"
  /\ rand < MaxEncrypts
  /\ Encrypt(alg, key, form)

\* write() once the ciphertext is complete; the engine of encrypt is left behind
Collect ==
  /\ stage = "encrypted"
  /\ EngineIdle
  /\ eng.pc = "done" => out.state = "ended"
  /\ wire' = Write(pkt, out)
  /\ pkt' = [pkt EXCEPT !.encrypted = Some([form |-> "array", bytes |-> EncryptedBytes(pkt, out)])]
  /\ stage' = "sent"
  /\ call' = [NoCall EXCEPT !.op = "write"]
  /\ src' = SrcOff /\ eng' = EngOff /\ ops' = <<>> /\ chain' = ChainOff
  /\ sink' = SinkOff /\ out' = OutOff
  /\ UNCHANGED <<err, sent, parser, rand, used, ctr, mac>>

----------------------------------------------------------------------------
(* The bytes in transit *)

\* where the ciphertext starts in the body of the packet
HeaderLen(w) == IF Len(w) > 0 /\ Num(w[1]) = 2 THEN 4 + SaltLength ELSE 1
Ciphertext(w) == SubSeq(w, HeaderLen(w) + 1, Len(w))
Header(w) == SubSeq(w, 1, HeaderLen(w))
\* the kind of the plain byte a byte stands for
Kind(b) == IF b[1] = "f" THEN b[3][1] ELSE b[1]
\* the first and the last byte of every run of bytes of one kind
FlipPositions(w) ==
  {i \in (HeaderLen(w) + 1)..Len(w) :
     \/ i = HeaderLen(w) + 1
     \/ i = Len(w)
     \/ Kind(w[i]) # Kind(w[i - 1])
     \/ Kind(w[i]) # Kind(w[i + 1])}

\* the data chunks of a version 2 ciphertext: chunk k of n, and the final tag
Stride(w) == Pow2(Num(w[4]) + ChunkSizeShift) + TagLength
DataLen(w) == Len(Ciphertext(w)) - TagLength
NumChunks(w) == IF DataLen(w) <= 0 THEN 0 ELSE (DataLen(w) + Stride(w) - 1) \div Stride(w)
Chunk(w, k) ==
  SubSeq(Ciphertext(w), (k - 1) * Stride(w) + 1, Min(k * Stride(w), DataLen(w)))
FinalTag(w) == SubSeq(Ciphertext(w), DataLen(w) + 1, Len(Ciphertext(w)))
Chunks(w) == [k \in 1..NumChunks(w) |-> Chunk(w, k)]
Rebuild(w, chunks) == Header(w) \o Flatten(chunks) \o FinalTag(w)
RemoveAt(ss, k) == SubSeq(ss, 1, k - 1) \o SubSeq(ss, k + 1, Len(ss))
DupAt(ss, k) == SubSeq(ss, 1, k) \o SubSeq(ss, k, Len(ss))
SwapAt(ss, k) == [i \in 1..Len(ss) |-> IF i = k THEN ss[k + 1] ELSE IF i = k + 1 THEN ss[k] ELSE ss[i]]

\* the lengths a body is cut to: in its header, and in a version 2 ciphertext
\* after the header, after the first chunk, in the second chunk, before and in
\* the final tag
TruncateLens(w) ==
  {n \in {0, 1, HeaderLen(w) - 1, Len(w) - 1} \cup
          (IF Len(w) >= HeaderLen(w) /\ Num(w[1]) = 2
           THEN {HeaderLen(w), HeaderLen(w) + Stride(w), HeaderLen(w) + Stride(w) + TagLength,
                 Len(w) - TagLength}
           ELSE {}) : n >= 0 /\ n < Len(w)}

Tampered(w, kind) ==
  /\ stage = "sent"
  /\ sent.tamper = "none"
  /\ w # wire
  /\ wire' = w
  /\ sent' = [sent EXCEPT !.tamper = kind]
  /\ UNCHANGED <<pkt, stage, call, err, src, eng, ops, chain, sink, out, parser, rand, used, ctr, mac>>

TamperFlip(i) ==
  /\ stage = "sent" /\ i \in FlipPositions(wire)
  /\ Tampered([wire EXCEPT ![i] = Garbage], "flip")
TamperVersion(v) == stage = "sent" /\ Tampered([wire EXCEPT ![1] = B(v)], "version")
TamperTruncate(n) ==
  /\ stage = "sent" /\ n \in TruncateLens(wire)
  /\ Tampered(SubSeq(wire, 1, n), IF n < HeaderLen(wire) THEN "header" ELSE "truncate")
TamperRemove(k) ==
  /\ stage = "sent" /\ Num(wire[1]) = 2 /\ k \in 1..NumChunks(wire)
  /\ Tampered(Rebuild(wire, RemoveAt(Chunks(wire), k)), "remove")
TamperDup(k) ==
  /\ stage = "sent" /\ Num(wire[1]) = 2 /\ k \in 1..NumChunks(wire)
  /\ Tampered(Rebuild(wire, DupAt(Chunks(wire), k)), "duplicate")
TamperSwap(k) ==
  /\ stage = "sent" /\ Num(wire[1]) = 2 /\ k \in 1..(NumChunks(wire) - 1)
  /\ Tampered(Rebuild(wire, SwapAt(Chunks(wire), k)), "reorder")

----------------------------------------------------------------------------
(* read() and decrypt() *)

ReadCall(form) ==
  /\ stage = "sent"
  /\ LET r == Read(pkt, wire, form)
     IN  /\ pkt' = r.pkt
         /\ err' = r.err
         /\ stage' = IF r.err = "" THEN "received" ELSE "unread"
  /\ call' = [NoCall EXCEPT !.op = "read"]
  /\ UNCHANGED <<wire, sent, src, eng, ops, chain, sink, out, parser, rand, used, ctr, mac>>

\* getAEADMode knows the mode and computeHKDF has a salt, lines 250 and 271
HeaderUsable(p) ==
  /\ p.aeadAlgorithm[1] \in AeadAlgos
  /\ p.salt[1] # UndefBytes
HeaderError == "Unsupported AEAD mode"

\* errors deferred for every stream, whatever the configuration says
DelayErrorsForStream(form, allowUnauthenticatedStream) == form = "stream"

\* lines 216-220: errors are deferred only for a stream, when the configuration allows it
DelayErrors(form, allowUnauthenticatedStream) == form = "stream" /\ allowUnauthenticatedStream

\* decrypt(), lines 173-229
DecryptCall(alg, key, allow) ==
  /\ stage = "received"
  /\ IsSome(pkt.encrypted)
  /\ call' = [op |-> "decrypt", alg |-> alg, key |-> key, allow |-> allow]
  /\ LET encrypted == pkt.encrypted[1]
         fail(e) == /\ err' = e
                    /\ UNCHANGED <<pkt, stage, src, eng, ops, chain, sink, out, parser>>
     IN  IF ~KeySizeOk(alg, key) THEN fail(KeySizeError)
         ELSE IF pkt.version = Some(2)
         THEN IF pkt.cipherAlgorithm # Some(alg) THEN fail(KeyAlgorithmError)
              ELSE IF ~HeaderUsable(pkt) THEN fail(HeaderError)
              ELSE /\ eng' = EngineStart(pkt, "decrypt", key)
                   /\ src' = [SrcOff EXCEPT !.mode = "aead", !.form = encrypted.form,
                                            !.bytes = encrypted.bytes,
                                            !.avail = IF encrypted.form = "array"
                                                      THEN Len(encrypted.bytes) ELSE 0]
                   /\ sink' = [SinkOff EXCEPT !.kind = encrypted.form]
                   /\ out' = [OutOff EXCEPT !.state = "open"]
                   /\ ops' = <<>>
                   /\ chain' = ChainOff
                   /\ parser' = [state |-> "pending", delayErrors |-> FALSE]
                   /\ err' = ""
                   /\ stage' = "decrypting"
                   /\ pkt' = pkt
         ELSE IF DelayErrors(encrypted.form, allow)
         THEN /\ src' = [SrcOff EXCEPT !.mode = "cfb", !.form = "stream",
                                       !.bytes = encrypted.bytes, !.key = key,
                                       !.blockSize = BlockSize(alg)]
              /\ out' = [OutOff EXCEPT !.state = "open"]
              /\ parser' = [state |-> "pending", delayErrors |-> TRUE]
              /\ err' = ""
              /\ stage' = "decrypting"
              /\ UNCHANGED <<pkt, eng, ops, chain, sink>>
         ELSE LET decrypted == CfbDecrypt(key, encrypted.bytes)
              IN  IF ~HashMatches(decrypted)
                  THEN /\ err' = ModificationDetected
                       /\ stage' = "decrypting"
                       /\ UNCHANGED <<pkt, src, eng, ops, chain, sink, out, parser>>
                  ELSE /\ out' = [state |-> "ended", err |-> "",
                                  bytes |-> LegacyPacketBytes(decrypted, BlockSize(alg))]
                       /\ parser' = [state |-> "returned", delayErrors |-> FALSE]
                       /\ pkt' = [pkt EXCEPT !.packets = Some(Parsed)]
                       /\ err' = ""
                       /\ stage' = "decrypting"
                       /\ UNCHANGED <<src, eng, ops, chain, sink>>
  /\ UNCHANGED <<wire, sent, rand, used, ctr, mac>>

\* a piece of the streamed version 1 ciphertext arrives and is decrypted: the
\* plaintext stream grows by what the slices of lines 200-214 let through
LegacyDeliver(k) ==
  /\ src.mode = "cfb"
  /\ src.avail < Len(src.bytes)
  /\ LET a == Min(src.avail + k, Len(src.bytes))
         decrypted == CfbDecrypt(src.key, SubSeq(src.bytes, 1, a))
     IN  /\ src' = [src EXCEPT !.avail = a]
         /\ out' = [out EXCEPT !.bytes = LegacyPacketBytes(decrypted, src.blockSize)]
  /\ UNCHANGED <<pkt, stage, call, err, wire, sent, eng, ops, chain, sink, parser, rand, used, ctr, mac>>

\* the streamed ciphertext ends and the plaintext stream is closed whatever
\* the digests are
LegacyEndClean ==
  /\ src.mode = "cfb"
  /\ src.avail = Len(src.bytes)
  /\ out.state = "open"
  /\ out' = [out EXCEPT !.state = "ended"]
  /\ UNCHANGED <<pkt, stage, call, err, wire, sent, src, eng, ops, chain, sink, parser, rand, used, ctr, mac>>

\* the streamed ciphertext ends: verifyHash settles, lines 202-215
LegacyEnd ==
  /\ src.mode = "cfb"
  /\ src.avail = Len(src.bytes)
  /\ out.state = "open"
  /\ LET decrypted == CfbDecrypt(src.key, src.bytes)
     IN  out' = IF HashMatches(decrypted)
                THEN [out EXCEPT !.state = "ended"]
                ELSE [out EXCEPT !.state = "errored", !.err = ModificationDetected]
  /\ UNCHANGED <<pkt, stage, call, err, wire, sent, src, eng, ops, chain, sink, parser, rand, used, ctr, mac>>

\* PacketList.fromBinary resolves, line 227: at the end of its input, or once
\* it has read the first packets of a stream
ParserCanReturn(o) == o.state = "ended" \/ (o.state = "open" /\ Len(o.bytes) > 0)
ParserReturn ==
  /\ parser.state = "pending"
  /\ ParserCanReturn(out)
  /\ parser' = [parser EXCEPT !.state = "returned"]
  /\ pkt' = [pkt EXCEPT !.packets = Some(Parsed)]
  /\ UNCHANGED <<stage, call, err, wire, sent, src, eng, ops, chain, sink, out, rand, used, ctr, mac>>

\* PacketList.fromBinary rejects with the error of its input
ParserFail ==
  /\ parser.state = "pending"
  /\ out.state = "errored"
  /\ parser' = [parser EXCEPT !.state = "failed"]
  /\ err' = out.err
  /\ UNCHANGED <<pkt, stage, call, wire, sent, src, eng, ops, chain, sink, out, rand, used, ctr, mac>>

----------------------------------------------------------------------------
Pieces == {PieceLen, 3 * PieceLen}
Forms == {"array", "stream"}
\* config.allowUnauthenticatedStream is read on the version 1 path only, line 216
AllowValues == IF pkt.version = Some(1) THEN BOOLEAN ELSE {FALSE}

Next ==
  \/ \E alg \in Ciphers, key \in SenderKeys, form \in Forms :
          EncryptCall(alg, key, form)
  \/ Collect
  \/ \E i \in 1..Len(wire) : TamperFlip(i)
  \/ \E v \in {0, 3} : TamperVersion(v)
  \/ \E n \in 0..Len(wire) : TamperTruncate(n)
  \/ \E k \in 1..Len(wire) : TamperRemove(k)
  \/ \E k \in 1..Len(wire) : TamperDup(k)
  \/ \E k \in 1..Len(wire) : TamperSwap(k)
  \/ \E form \in Forms : ReadCall(form)
  \/ \E alg \in Ciphers, key \in Keys, allow \in AllowValues :
          DecryptCall(alg, key, allow)
  \/ EngineRead
  \/ \E n \in 1..Len(ops) : CryptoSettle(n)
  \/ ChainStep
  \/ SinkConsume
  \/ EngineResume
  \/ \E k \in Pieces : SrcDeliver(k)
  \/ \E k \in Pieces : LegacyDeliver(k)
  \/ LegacyEnd
  \/ ParserReturn
  \/ ParserFail

Spec == Init /\ [][Next]_vars

\* the input is finite and arrives, every started cryptographic call settles,
\* the write chain and the loop proceed when they can, and the consumer of
\* the output takes what is written
Fairness ==
  /\ WF_vars(\E k \in Pieces : SrcDeliver(k))
  /\ WF_vars(EngineRead)
  /\ WF_vars(\E n \in 1..Len(ops) : CryptoSettle(n))
  /\ WF_vars(ChainStep)
  /\ WF_vars(SinkConsume)
  /\ WF_vars(EngineResume)

\* the runs of the loop, encrypting and decrypting with the key of encrypt
\* or with another one, on an empty input and on one of several data chunks
FairLens == {0, MaxChunks * ChunkLen0 + 1}

InitFair ==
  \E aead \in AeadAlgos, n \in FairLens : InitWith(2, aead, n)

NextFair ==
  \/ \E alg \in Ciphers, key \in SenderKeys, form \in Forms :
          EncryptCall(alg, key, form)
  \/ Collect
  \/ \E form \in Forms : ReadCall(form)
  \/ \E alg \in Ciphers, key \in Keys, allow \in AllowValues :
          DecryptCall(alg, key, allow)
  \/ EngineRead
  \/ \E n \in 1..Len(ops) : CryptoSettle(n)
  \/ ChainStep
  \/ SinkConsume
  \/ EngineResume
  \/ \E k \in Pieces : SrcDeliver(k)
  \/ ParserReturn
  \/ ParserFail

SpecFair == InitFair /\ [][NextFair]_vars /\ Fairness

\* the counter advance of lines 333-338 alone, from counters before and after
\* the values at which a byte, 32 bits and more are exceeded
StartIndexes ==
  {Wide0,
   <<0, 0, 0, 0, 0, 0, 0, 236>>,
   <<0, 0, 0, 0, 255, 255, 255, 236>>,
   <<0, 0, 0, 1, 255, 255, 255, 236>>}

\* lines 333-338: ++chunkIndex and its write into iv
CounterAdvance ==
  /\ ctr.steps < MaxAdvance
  /\ LET k == WideInc(ctr.chunkIndex)
     IN  ctr' = [chunkIndex |-> k, iv |-> CounterWrite(ctr.iv, k), steps |-> ctr.steps + 1]
  /\ UNCHANGED <<pkt, stage, call, err, wire, sent, src, eng, ops, chain, sink, out, parser,
                 rand, used, mac>>

\* a version 2 packet on which no call has been made
Untouched ==
  /\ pkt = FromObject(2, 1)
  /\ sent = [plain |-> <<>>, alg |-> 0, key |-> NoKey, tamper |-> "none"]
  /\ stage = "fresh"
  /\ call = NoCall
  /\ err = ""
  /\ wire = <<>>
  /\ src = SrcOff
  /\ eng = EngOff
  /\ ops = <<>>
  /\ chain = ChainOff
  /\ sink = SinkOff
  /\ out = OutOff
  /\ parser = ParserOff
  /\ rand = 0
  /\ used = <<>>

InitCounter ==
  /\ Untouched
  /\ mac = MacOff
  /\ \E k \in StartIndexes : ctr = CounterAt(k)

NextCounter == CounterAdvance

SpecCounter == InitCounter /\ [][NextCounter]_vars

\* version 2 encrypt calls alone, repeated on one packet, on longer inputs
EncryptLens == {0, 1, ChunkLen0, LongChunks * ChunkLen0 + LongRest}

InitEncrypt ==
  \E aead \in AeadAlgos, n \in EncryptLens : InitWith(2, aead, n)

NextEncrypt ==
  \/ \E alg \in Ciphers, key \in SenderKeys, form \in Forms :
          EncryptCall(alg, key, form)
  \/ \E alg \in Ciphers, key \in SenderKeys, form \in Forms :
          EncryptAgain(alg, key, form)
  \/ EngineRead
  \/ \E n \in 1..Len(ops) : CryptoSettle(n)
  \/ ChainStep
  \/ SinkConsume
  \/ EngineResume
  \/ \E k \in Pieces : SrcDeliver(k)

SpecEncrypt == InitEncrypt /\ [][NextEncrypt]_vars

----------------------------------------------------------------------------
(* CMAC, src/src/crypto/cmac.js: bytes are numbers 0..255 here *)

RECURSIVE Xor(_, _)
Xor(a, b) ==
  IF a = 0 THEN b
  ELSE IF b = 0 THEN a
  ELSE ((a + b) % 2) + 2 * Xor(a \div 2, b \div 2)

ZeroBlock == [i \in 1..BlockLength |-> 0]

\* the block cipher under key k: a permutation of the blocks
Aes(k, block) ==
  [i \in 1..BlockLength |-> (block[(i % BlockLength) + 1] * 7 + k * 13 + i) % 256]
\* util.double: the doubling in GF(2^128)
Double(b) ==
  [i \in 1..BlockLength |->
     IF i < BlockLength THEN Xor((b[i] * 2) % 256, b[i + 1] \div 128)
     ELSE Xor((b[i] * 2) % 256, (b[1] \div 128) * 135)]
XorBlock(a, b) == [i \in 1..BlockLength |-> Xor(a[i], b[i])]

\* the function CBC(key) returns, lines 74-103: CBC with a zero iv over the
\* whole blocks of pt
RECURSIVE CbcFrom(_, _, _)
CbcFrom(k, prev, pt) ==
  IF Len(pt) < BlockLength THEN <<>>
  ELSE LET c == Aes(k, XorBlock(SubSeq(pt, 1, BlockLength), prev))
       IN  c \o CbcFrom(k, c, SubSeq(pt, BlockLength + 1, Len(pt)))
Cbc(k, pt) == CbcFrom(k, ZeroBlock, pt)

\* rightXORMut, lines 38-44: the array data after the call, which is also
\* what the call returns
RightXORMut(data, padding) ==
  [i \in 1..Len(data) |->
     IF i > Len(data) - BlockLength
     THEN Xor(data[i], padding[i - (Len(data) - BlockLength)])
     ELSE data[i]]

\* a pad that takes every multiple of the block length, 0 included, as whole
PadEmptyWhole(data, padding, padding2) ==
  IF Len(data) % BlockLength = 0
  THEN LET r == RightXORMut(data, padding) IN [input |-> r, data |-> r]
  ELSE LET padded == data \o <<128>> \o
                       [i \in 1..(BlockLength - (Len(data) % BlockLength) - 1) |-> 0]
       IN  [input |-> RightXORMut(padded, padding2), data |-> data]

\* pad, lines 46-57: what it returns (input) and the array data after the call
Pad(data, padding, padding2) ==
  IF Len(data) > 0 /\ Len(data) % BlockLength = 0
  THEN LET r == RightXORMut(data, padding) IN [input |-> r, data |-> r]
  ELSE LET padded == data \o <<128>> \o
                       [i \in 1..(BlockLength - (Len(data) % BlockLength) - 1) |-> 0]
       IN  [input |-> RightXORMut(padded, padding2), data |-> data]

\* lines 65-66
Padding(k) == Double(Cbc(k, ZeroBlock))
Padding2(k) == Double(Padding(k))

\* the messages and the keys given to CMAC
MacLens == {0, 1, BlockLength - 1, BlockLength, BlockLength + 1, 2 * BlockLength}
MacMessage(n, seed) == [i \in 1..n |-> (seed * 37 + i * 11) % 256]
MacKeys == {1, 2}

\* the function CMAC(key) returns is called on the array mac.data, lines 68-71
MacCall ==
  /\ mac.key # 0
  /\ Len(mac.calls) < MaxMacCalls
  /\ LET p == Pad(mac.data, Padding(mac.key), Padding2(mac.key))
         tag == SubarrayFrom(Cbc(mac.key, p.input), 0 - BlockLength)
     IN  mac' = [mac EXCEPT !.data = p.data,
                            !.calls = Append(@, [msg |-> mac.data, input |-> p.input,
                                                 tag |-> tag])]
  /\ UNCHANGED <<pkt, stage, call, err, wire, sent, src, eng, ops, chain, sink, out, parser,
                 rand, used, ctr>>

InitCmac ==
  /\ Untouched
  /\ ctr = CtrOff
  /\ \E k \in MacKeys, n \in MacLens, seed \in 0..MaxMacSeed :
        mac = [key |-> k, data |-> MacMessage(n, seed), orig |-> MacMessage(n, seed),
               calls |-> <<>>]

NextCmac == MacCall

SpecCmac == InitCmac /\ [][NextCmac]_vars

----------------------------------------------------------------------------
(* Properties *)

IsPrefix(a, b) == Len(a) <= Len(b) /\ a = SubSeq(b, 1, Len(a))

\* decrypt is running, or has run, on a version v packet
Decrypting(v) == stage = "decrypting" /\ pkt.version = Some(v)
\* decrypt was called with the algorithm and the key encrypt was called with
SameKey == call.op = "decrypt" /\ call.alg = sent.alg /\ call.key = sent.key
\* everything decrypt started has come to its end
DecryptDone ==
  /\ stage = "decrypting"
  /\ IF pkt.version = Some(2) THEN eng.pc = "done" ELSE out.state # "open"
\* the form of the ciphertext decrypt was given
EncryptedForm == pkt.encrypted[1].form

\* the version 1 ciphertext under the key of the call, and whether the SHA-1
\* digest of everything before its last 20 bytes differs from those 20 bytes
LegacyDecrypted == CfbDecrypt(call.key, pkt.encrypted[1].bytes)
DigestDiffers ==
  Sha1(Subarray(LegacyDecrypted, 0, 0 - DigestLength)) #
    SubarrayFrom(LegacyDecrypted, 0 - DigestLength)

\* C1: decrypt with the session key and algorithm of encrypt, applied to the
\* packet encrypt produced (written, read back, the ciphertext an array or a
\* stream), raises no error and hands the parser the original plaintext: what
\* the parser has been given is always a prefix of the plaintext, and once
\* decryption is over it is the whole plaintext, cleanly ended.
RoundTrip ==
  (stage = "decrypting" /\ SameKey /\ sent.tamper = "none") =>
     /\ err = ""
     /\ parser.state # "failed"
     /\ out.state \in {"open", "ended"}
     /\ IsPrefix(out.bytes, sent.plain)
     /\ DecryptDone => out.state = "ended" /\ out.bytes = sent.plain

RoundTripWitness ==
  /\ Decrypting(2) /\ SameKey /\ sent.tamper = "none"
  /\ EncryptedForm = "stream"
  /\ Len(sent.plain) > 2 * ChunkLen0
  /\ DecryptDone
  /\ out.bytes = sent.plain
  /\ parser.state = "returned"

\* C2: version 1, errors not deferred: when the recomputed digest differs from
\* the last 20 decrypted bytes, decrypt fails with 'Modification detected.',
\* the parser is not invoked and packets is what it was before the call; the
\* parser is invoked only when the digests are equal.
LegacyDigestChecked ==
  (Decrypting(1) /\ ~parser.delayErrors) =>
     IF DigestDiffers
     THEN /\ err = ModificationDetected
          /\ parser.state = "idle"
          /\ pkt.packets = Some([kind |-> "plain", bytes |-> sent.plain])
          /\ out = OutOff
     ELSE /\ err = ""
          /\ parser.state # "idle"

LegacyDigestWitness ==
  /\ Decrypting(1) /\ ~parser.delayErrors
  /\ SameKey /\ sent.tamper = "flip"
  /\ DigestDiffers
  /\ err = ModificationDetected

\* C3: when the AEAD operation of a chunk has failed, the sink is never closed,
\* and once the write chain has reached that chunk the sink is aborted with the
\* error, whatever the engine does afterwards; what was written before stays
\* written.
AnyChunkFailed == \E n \in 1..Len(ops) : ~ops[n].ok
FailureLinked == \E n \in 1..chain.done : ~ops[n].ok
Written == Flatten([i \in 1..Len(sink.writes) |-> ops[sink.writes[i]].bytes])
AeadFailureAborts ==
  /\ AnyChunkFailed => sink.state # "closed" /\ out.state # "ended"
  /\ FailureLinked =>
       /\ sink.state = "errored"
       /\ out.state = "errored"
       /\ out.err = AeadError
       /\ (IF sink.kind = "array" THEN sink.pushed ELSE out.bytes) = Written

AeadFailureWitness ==
  /\ FailureLinked
  /\ eng.pc = "done"
  /\ sink.kind = "stream"
  /\ Len(out.bytes) > 0
  /\ sink.state = "errored"

\* C4: decrypting a version 2 ciphertext in which a byte of a chunk, of a tag
\* or of the final tag was altered, or which was cut short, or from which whole
\* data chunks were removed, duplicated or reordered, never ends successfully:
\* the sink is never closed, and it is aborted by the time the engine is done.
TamperKinds == {"flip", "truncate", "remove", "duplicate", "reorder"}
TamperDetected ==
  (Decrypting(2) /\ sent.tamper \in TamperKinds) =>
     /\ sink.state # "closed"
     /\ out.state # "ended"
     /\ eng.pc = "done" => sink.state = "errored" /\ out.state = "errored"

TamperDetectedWitness ==
  /\ Decrypting(2) /\ SameKey
  /\ sent.tamper = "reorder"
  /\ Len(sent.plain) = 2 * ChunkLen0
  /\ eng.pc = "done"
  /\ sink.state = "errored"

\* C5: the outputs of the chunks reach the sink in chunk order, the output of
\* the final chunk after those of all data chunks, and the sink is closed only
\* after the write of the final chunk's output has completed.
WritesInOrder ==
  \A i, j \in 1..Len(sink.writes) : i < j => sink.writes[i] < sink.writes[j]
FinalWrittenLast ==
  \A i \in 1..Len(sink.writes) :
     ops[sink.writes[i]].final => i = Len(sink.writes) /\ sink.writes[i] = Len(ops)
ClosedAfterFinalWrite ==
  sink.state = "closed" =>
     /\ Len(ops) > 0 /\ ops[Len(ops)].final
     /\ sink.writes = [i \in 1..Len(ops) |-> i]
     /\ ~chain.writing
OutputOrdered == WritesInOrder /\ FinalWrittenLast /\ ClosedAfterFinalWrite

\* the output of a chunk is ready and held back behind the chunk before it,
\* whose cryptographic call has not settled yet
OutputOrderedWitness ==
  /\ Len(sink.writes) >= 1
  /\ \E n \in 2..(Len(ops) - 1) :
        /\ chain.done = n - 1
        /\ ~ops[n].settled
        /\ ops[n + 1].settled /\ ops[n + 1].ok

\* C6: an encrypt or decrypt call with a key whose length is not the key size
\* of the algorithm fails with 'Unexpected session key size' and changes
\* nothing: the fields of the packet are what they were, no salt is drawn, no
\* key derived, no engine started and no cipher called.
KeySizeEnforced ==
  [][\A alg \in Ciphers, key \in Keys :
       (/\ key.len # KeySize(alg)
        /\ \/ \E form \in Forms : EncryptCall(alg, key, form)
           \/ \E allow \in BOOLEAN : DecryptCall(alg, key, allow))
       => /\ err' = KeySizeError
          /\ pkt' = pkt
          /\ UNCHANGED <<stage, src, eng, ops, chain, sink, out, parser>>]_vars

KeySizeWitness ==
  /\ call.op = "decrypt"
  /\ call.key.len # KeySize(call.alg)
  /\ err = KeySizeError
  /\ stage = "received"
  /\ IsSome(pkt.encrypted)

\* C7: read() of a body whose first byte is neither 1 nor 2 fails with the
\* unsupported-version error and leaves every field of the packet as it was,
\* so that the version of a packet is always unset, 1 or 2.
ReadBadVersionNoEffect ==
  [][(/\ Len(wire) > 0 /\ Num(wire[1]) \notin {1, 2}
      /\ \E form \in Forms : ReadCall(form))
     => /\ err' = UnsupportedVersionError
        /\ pkt' = pkt
        /\ pkt'.version \in {None, Some(1), Some(2)}]_vars

\* C8 as stated: whenever decrypt has set packets, every check of that
\* decryption has already succeeded: the digests were compared and are equal
\* (version 1), or every chunk and the final tag were authenticated (version 2).
DigestChecked == ~DigestDiffers /\ out.state = "ended"
AllChunksChecked ==
  /\ Len(ops) > 0 /\ ops[Len(ops)].final
  /\ \A n \in 1..Len(ops) : ops[n].settled /\ ops[n].ok
ChecksSucceeded == IF pkt.version = Some(1) THEN DigestChecked ELSE AllChunksChecked
PacketsSet == stage = "decrypting" /\ pkt.packets = Some(Parsed)
PacketsOnlyAfterChecks == PacketsSet => ChecksSucceeded

\* C8, amended: when the ciphertext is not a stream, and for version 1 also
\* when it is a stream whose errors are not deferred, decrypt sets packets only
\* after every check of the decryption has succeeded.
Streamed == EncryptedForm = "stream" /\ (pkt.version = Some(1) => parser.delayErrors)
PacketsAfterChecksUnlessStreamed == (PacketsSet /\ ~Streamed) => ChecksSucceeded

PacketsAfterChecksWitness ==
  /\ PacketsSet /\ ~Streamed
  /\ pkt.version = Some(2)
  /\ Len(ops) >= 3
  /\ ChecksSucceeded

\* C9 as stated: the parser is given delayErrors = true only for a version 1
\* packet whose ciphertext is a stream, with allowUnauthenticatedStream set; in
\* every other case the parser is invoked only after the whole plaintext was
\* read and its digest verified.
ParserInvoked == stage = "decrypting" /\ parser.state # "idle"
DeferredOnlyOptIn ==
  parser.delayErrors =>
     pkt.version = Some(1) /\ EncryptedForm = "stream" /\ call.allow
DeferredOptInElseVerified ==
  /\ DeferredOnlyOptIn
  /\ (ParserInvoked /\ ~parser.delayErrors) =>
        /\ out.state = "ended"
        /\ pkt.version = Some(1) => ~DigestDiffers

\* C9, amended: the parser is given delayErrors = true only for a version 1
\* packet whose ciphertext is a stream, with allowUnauthenticatedStream set; in
\* every other version 1 case the parser is invoked only after the whole
\* plaintext was read and its digest verified.
DeferredOptInElseVerifiedLegacy ==
  /\ DeferredOnlyOptIn
  /\ (ParserInvoked /\ ~parser.delayErrors /\ pkt.version = Some(1)) =>
        out.state = "ended" /\ ~DigestDiffers

DeferredOptInWitness ==
  /\ ParserInvoked /\ ~parser.delayErrors
  /\ pkt.version = Some(1)
  /\ EncryptedForm = "stream"
  /\ ~call.allow
  /\ out.bytes = sent.plain

\* C10: version 1 with deferred errors: the plaintext stream handed to the
\* parser ends normally only after the whole ciphertext was read and the
\* digests were found equal; when they differ it ends with 'Modification
\* detected.', after the plaintext bytes, and never with a clean end.
DeferredEndVerified ==
  (Decrypting(1) /\ parser.delayErrors) =>
     /\ out.state = "ended" => ~DigestDiffers /\ src.avail = Len(src.bytes)
     /\ DigestDiffers =>
          /\ out.state \in {"open", "errored"}
          /\ out.state = "errored" =>
               /\ out.err = ModificationDetected
               /\ src.avail = Len(src.bytes)
               /\ out.bytes = LegacyPacketBytes(LegacyDecrypted, BlockSize(call.alg))

DeferredEndWitness ==
  /\ Decrypting(1) /\ parser.delayErrors
  /\ DigestDiffers
  /\ out.state = "errored"
  /\ Len(out.bytes) > 0
  /\ parser.state = "returned"

----------------------------------------------------------------------------
(* The engine's calls of the AEAD primitive *)

\* the calls of the AEAD primitive made by encrypt calls before the present one
Earlier == 1..(Len(used) - Len(ops))
Encrypting == eng.pc # "off" /\ eng.fn = "encrypt"

ChunkSizeOf(p) == Pow2(p.chunkSizeByte[1] + ChunkSizeShift)
\* the number of data chunks of L bytes cut into chunks of S bytes
DataChunks(L, S) == IF L = 0 THEN 1 ELSE (L + S - 1) \div S
InLens == [n \in 1..Len(ops) |-> ops[n].inLen]

\* C12: a finished version 2 encryption of L bytes with chunk size S has
\* called the AEAD primitive on the consecutive pieces of S bytes of the
\* plaintext, the last piece holding the rest (one empty piece when L = 0),
\* and then once on a final chunk of no bytes; every call added one tag, so
\* the ciphertext has L + (data chunks + 1) * tagLength bytes; for S = 64 and
\* L = 200 the chunks have 64, 64, 64 and 8 bytes.
ChunkFraming ==
  Encrypting /\ eng.pc = "done" =>
    LET L == Len(src.bytes)
        S == ChunkSizeOf(pkt)
        nData == DataChunks(L, S)
    IN  /\ Len(ops) = nData + 1
        /\ \A n \in 1..nData :
              /\ ~ops[n].final
              /\ ops[n].inLen = (IF n < nData THEN S ELSE L - (nData - 1) * S)
              /\ ops[n].bytes =
                   AeadEncrypt(eng.key, ops[n].nonce, ops[n].adata,
                               SubSeq(src.bytes, (n - 1) * S + 1, Min(n * S, L)))
        /\ ops[nData + 1].final
        /\ ops[nData + 1].inLen = 0
        /\ \A n \in 1..Len(ops) : Len(ops[n].bytes) = ops[n].inLen + TagLength
        /\ out.state = "ended"
        /\ out.bytes = Flatten([n \in 1..Len(ops) |-> ops[n].bytes])
        /\ Len(out.bytes) = L + (nData + 1) * TagLength
        /\ (S = 64 /\ L = 200) =>
              /\ InLens = <<64, 64, 64, 8, 0>>
              /\ Len(out.bytes) = 200 + 5 * TagLength

\* the longest plaintext, streamed, has been cut into several data chunks
\* of which the last one is shorter than the chunk size
ChunkFramingWitness ==
  /\ Encrypting
  /\ eng.pc = "done"
  /\ src.form = "stream"
  /\ Len(src.bytes) = LongChunks * ChunkLen0 + LongRest
  /\ Len(ops) >= 3
  /\ ops[Len(ops) - 1].inLen \in 1..(ChunkSizeOf(pkt) - 1)

\* the calls of the AEAD primitive that the loop of lines 293-343 makes on the
\* input bytes held as one array, from position pos on, when chunkIndex
\* chunks holding cryptedBytes bytes have been processed
RECURSIVE ArrayRun(_, _, _, _)
ArrayRun(bytes, pos, chunkIndex, cryptedBytes) ==
  LET got == SubSeq(bytes, pos + 1, Min(pos + eng.chunkSize + eng.tagDec, Len(bytes)))
      finalChunk == SubarrayFrom(got, Len(got) - eng.tagDec)
      chunk == Subarray(got, 0, Len(got) - eng.tagDec)
      nonce == <<0, chunkIndex>>
  IN  IF chunkIndex = 0 \/ Len(chunk) > 0
      THEN LET res == Crypt(eng.fn, eng.key, nonce, eng.adata, chunk)
           IN  <<[final |-> FALSE, nonce |-> nonce, adata |-> eng.adata,
                  inLen |-> Len(chunk), ok |-> res.ok, bytes |-> res.bytes]>>
               \o ArrayRun(bytes, pos + Len(chunk), chunkIndex + 1,
                           cryptedBytes + Len(chunk) - eng.tagDec)
      ELSE LET adata == eng.adata \o <<0, cryptedBytes>>
               res == Crypt(eng.fn, eng.key, nonce, adata, finalChunk)
           IN  <<[final |-> TRUE, nonce |-> nonce, adata |-> adata,
                  inLen |-> Len(finalChunk), ok |-> res.ok, bytes |-> res.bytes]>>

CallsMade ==
  [n \in 1..Len(ops) |->
     [final |-> ops[n].final, nonce |-> ops[n].nonce, adata |-> ops[n].adata,
      inLen |-> ops[n].inLen, ok |-> ops[n].ok, bytes |-> ops[n].bytes]]
\* the output of the calls up to the first one that fails
RECURSIVE OutputOf(_)
OutputOf(calls) ==
  IF calls = <<>> \/ ~Head(calls).ok THEN <<>>
  ELSE Head(calls).bytes \o OutputOf(Tail(calls))
AllOk(calls) == \A n \in 1..Len(calls) : calls[n].ok

\* C13: whether the input is an array or a stream delivered in pieces, and
\* whatever the interleaving, runAEAD (encrypt and decrypt) makes the calls of
\* the AEAD primitive that the loop makes on the whole input held as one
\* array, and its output is the output of those calls: complete when they all
\* succeed, and otherwise an error after at most the bytes of the calls
\* before the failed one.
StreamingEquivalent ==
  eng.pc # "off" =>
    LET ref == ArrayRun(src.bytes, 0, 0, 0)
    IN  /\ IsPrefix(CallsMade, ref)
        /\ IsPrefix(out.bytes, OutputOf(ref))
        /\ eng.pc = "done" =>
              /\ CallsMade = ref
              /\ out.state = (IF AllOk(ref) THEN "ended" ELSE "errored")
              /\ out.state = "ended" => out.bytes = OutputOf(ref)

\* a streamed ciphertext of several chunks, delivered in pieces that end
\* inside the chunks, has been decrypted to its end
StreamingEquivalentWitness ==
  /\ Decrypting(2)
  /\ eng.pc = "done"
  /\ src.form = "stream"
  /\ Len(ops) >= 3
  /\ out.state = "ended"
  /\ PieceLen % eng.chunkSize # 0

----------------------------------------------------------------------------
(* The wire format *)

\* the fields that write() emits and read() sets
SameFields(p, q) ==
  /\ p.version = q.version
  /\ p.cipherAlgorithm = q.cipherAlgorithm
  /\ p.aeadAlgorithm = q.aeadAlgorithm
  /\ p.chunkSizeByte = q.chunkSizeByte
  /\ p.salt = q.salt
  /\ IsSome(p.encrypted) /\ IsSome(q.encrypted)
  /\ p.encrypted[1].bytes = q.encrypted[1].bytes
\* the body has a version 1 or 2 and, for version 2, its whole header
WellFormed(body) ==
  /\ Len(body) >= 1
  /\ Num(body[1]) \in {1, 2}
  /\ Len(body) >= HeaderLen(body)

\* C14: what write() has emitted is the version followed by the ciphertext
\* for version 1, and the version, the cipher algorithm, the AEAD algorithm,
\* the chunk size byte, the 32 bytes of salt and the ciphertext for version 2;
\* read() of those bytes into a new packet succeeds and gives the fields of
\* the written packet; and write() of a packet that read() has filled from a
\* well-formed body gives that body.
WireRoundTrip ==
  /\ stage = "sent" /\ sent.tamper = "none" =>
        /\ wire = (IF pkt.version = Some(2)
                   THEN <<B(2), B(pkt.cipherAlgorithm[1]), B(pkt.aeadAlgorithm[1]),
                          B(pkt.chunkSizeByte[1])>> \o pkt.salt[1] \o pkt.encrypted[1].bytes
                   ELSE <<B(1)>> \o pkt.encrypted[1].bytes)
        /\ pkt.version = Some(2) => Len(pkt.salt[1]) = SaltLength
        /\ \A form \in Forms :
              LET r == Read(NewPacket, wire, form)
              IN  /\ r.err = ""
                  /\ SameFields(r.pkt, pkt)
                  /\ Write(r.pkt, out) = wire
  /\ stage = "received" /\ WellFormed(wire) => Write(pkt, out) = wire

\* read() has filled the packet from a version 2 body that write() emitted,
\* with a ciphertext of several chunks
WireRoundTripWitness ==
  /\ stage = "received"
  /\ sent.tamper = "none"
  /\ pkt.version = Some(2)
  /\ pkt.cipherAlgorithm[1] # pkt.aeadAlgorithm[1]
  /\ Len(pkt.encrypted[1].bytes) > ChunkLen0
  /\ Write(pkt, out) = wire

\* the last call was read() of a version 2 body that ends inside its header
ReadTruncatedHeader ==
  /\ call.op = "read"
  /\ Len(wire) >= 1
  /\ Num(wire[1]) = 2
  /\ Len(wire) < 4 + SaltLength

\* C15: read() of a version 2 body that ends before the cipher algorithm, the
\* AEAD algorithm, the chunk size byte and the 32 bytes of salt fails; so a
\* version 2 packet that read() has filled without an error has its three
\* header bytes defined and a salt of exactly 32 bytes.
TruncatedHeaderRejected ==
  /\ ReadTruncatedHeader => stage = "unread" /\ err # ""
  /\ stage = "received" /\ pkt.version = Some(2) =>
        /\ pkt.cipherAlgorithm[1] # Undef
        /\ pkt.aeadAlgorithm[1] # Undef
        /\ pkt.chunkSizeByte[1] # Undef
        /\ pkt.salt[1] # UndefBytes
        /\ Len(pkt.salt[1]) = SaltLength

----------------------------------------------------------------------------
(* The processing loop and its sink *)

\* C16: once the sink has been aborted, the loop reads no further bytes from
\* the source and starts no further call of the AEAD primitive.
NoReadAfterAbort ==
  [][(eng.pc # "off" /\ sink.state = "errored" /\ eng'.pc # "off")
       => (Len(ops') = Len(ops) /\ src'.pos = src.pos)]_vars

\* writer.desiredSize of a stream sink s: what is left of the high water
\* mark, 0 once the sink is closed, null (0 in a comparison) once it is errored
DesiredSize(s, hwm) == IF s.state = "open" THEN hwm - InflightLen(s) ELSE 0
\* every write enqueued so far has completed
AllWritten == sink.writes = [n \in 1..Len(ops) |-> n]
\* the loop enqueues a chunk and goes on to its next read without waiting
ReadsOn == eng.pc = "read" /\ eng'.pc = "read" /\ Len(ops') = Len(ops) + 1
\* the loop goes on to its next read after it has waited for the write chain
ReadsAfterWait == eng.pc = "awaitChain" /\ eng'.pc = "read"

\* C17: with a stream as sink, the loop goes on to its next read without
\* waiting only if the bytes enqueued and not yet written do not exceed the
\* desired size of the sink, and after waiting only when every write
\* enqueued before has completed, so that no byte is pending.
BackpressureRespected ==
  [][sink.kind = "stream" =>
       /\ ReadsOn => eng'.queuedBytes <= DesiredSize(sink, eng.hwm)
       /\ ReadsAfterWait => AllWritten /\ eng'.queuedBytes = 0]_vars

\* the loop is running before and after the step
EngineStep == eng.pc # "off" /\ eng'.pc # "off"
\* the step starts a call of the AEAD primitive
StartsCall == Len(ops') = Len(ops) + 1
Started == ops'[Len(ops')]

RECURSIVE PlainBytes(_)
PlainBytes(n) ==
  IF n = 0 THEN 0
  ELSE PlainBytes(n - 1) + (IF ops[n].final THEN 0 ELSE ops[n].inLen - eng.tagDec)
DataCallsBefore(n) == Cardinality({m \in 1..(n - 1) : ~ops[m].final})
\* 0xC0 | tag, version, cipherAlgorithm, aeadAlgorithm, chunkSizeByte
FiveBytes ==
  <<210, pkt.version[1], pkt.cipherAlgorithm[1], pkt.aeadAlgorithm[1],
    pkt.chunkSizeByte[1]>>

Running == eng.pc \in {"read", "awaitChain"}
FinalCalls == {n \in 1..Len(ops) : ops[n].final}
Ended ==
  /\ eng.pc = "done"
  /\ sink.state \in {"closed", "errored"}
  /\ FinalCalls = {Len(ops)}

\* C20: under fair scheduling every run of the loop on a finite input ends:
\* the sink is eventually closed or aborted, the loop has then made exactly
\* one final-chunk call, its last one, and after that call it reads nothing
\* and starts no call.
LoopTerminates ==
  /\ Running ~> Ended
  /\ [][eng.done /\ eng'.done => Len(ops') = Len(ops) /\ src'.pos = src.pos]_vars

\* a run on a streamed input has ended with its sink aborted, after its one
\* final-chunk call
LoopTerminatesWitness ==
  /\ Ended
  /\ sink.state = "errored"
  /\ src.form = "stream"
  /\ Len(ops) >= 3

----------------------------------------------------------------------------
(* The width of the chunk counter *)

Zero4 == <<0, 0, 0, 0>>
\* k mod 2^32 as 4 bytes: the low half of the 64-bit form of k
Mod32(w) == SubSeq(w, 5, 8)
\* k < 2^32
Below32(w) == SubSeq(w, 1, 4) = Zero4

\* C21: the counter of chunk k is in the last 4 bytes of the iv as the 32-bit
\* big-endian form of k mod 2^32, the 4 bytes before them are zero for every
\* chunk, and so the 8 bytes are the 64-bit counter k exactly when k is
\* below 2^32.
CounterWidth ==
  /\ SubSeq(ctr.iv, 1, 4) = Zero4
  /\ SubSeq(ctr.iv, 5, 8) = Mod32(ctr.chunkIndex)
  /\ (ctr.iv = ctr.chunkIndex) <=> Below32(ctr.chunkIndex)

\* the counter has been advanced to 2^32 and the iv holds the bytes of chunk 0
CounterWidthWitness ==
  /\ ctr.steps > 0
  /\ ctr.chunkIndex = <<0, 0, 0, 1, 0, 0, 0, 0>>
  /\ ctr.iv = Wide0

----------------------------------------------------------------------------
(* CMAC *)

\* L = E_K(0^16), K1 = double(L), K2 = double(K1)
SubkeyL(k) == Aes(k, ZeroBlock)
K1(k) == Double(SubkeyL(k))
K2(k) == Double(K1(k))
Whole(m) == Len(m) > 0 /\ Len(m) % BlockLength = 0
NextMultiple(n) == ((n \div BlockLength) + 1) * BlockLength
\* m followed by 0x80 and zero bytes up to the next multiple of 16
Padded(m) == [i \in 1..NextMultiple(Len(m)) |->
                IF i <= Len(m) THEN m[i] ELSE IF i = Len(m) + 1 THEN 128 ELSE 0]
\* m with the block kk XORed into its last block
XorIntoLast(m, kk) ==
  SubSeq(m, 1, Len(m) - BlockLength)
    \o XorBlock(SubSeq(m, Len(m) - BlockLength + 1, Len(m)), kk)
Prepared(k, m) ==
  IF Whole(m) THEN XorIntoLast(m, K1(k)) ELSE XorIntoLast(Padded(m), K2(k))
\* the last block of the CBC encryption, from the chaining value x, of blocks
RECURSIVE CbcMac(_, _, _)
CbcMac(k, x, blocks) ==
  IF blocks = <<>> THEN x
  ELSE CbcMac(k, Aes(k, XorBlock(SubSeq(blocks, 1, BlockLength), x)),
              SubSeq(blocks, BlockLength + 1, Len(blocks)))

\* C22: a message whose length is a positive multiple of 16 goes to the
\* block cipher unpadded with K1 XORed into its last block; every other
\* message, the empty one included, is extended by 0x80 and zero bytes to
\* the next multiple of 16 and K2 is XORed into its last block; the input of
\* the block cipher is always a whole number of blocks, at least one, and
\* the tag is the last 16-byte block of its CBC encryption.
CmacPrepared ==
  \A n \in 1..Len(mac.calls) :
     LET c == mac.calls[n]
     IN  /\ c.input = Prepared(mac.key, c.msg)
         /\ Len(c.input) = (IF Whole(c.msg) THEN Len(c.msg) ELSE NextMultiple(Len(c.msg)))
         /\ Len(c.input) >= BlockLength
         /\ Len(c.input) % BlockLength = 0
         /\ Len(c.tag) = BlockLength
         /\ c.tag = CbcMac(mac.key, ZeroBlock, c.input)

\* the MAC of the empty message has been computed, on one padded block
CmacPreparedWitness ==
  /\ Len(mac.calls) >= 1
  /\ mac.calls[1].msg = <<>>
  /\ mac.calls[1].input = XorBlock(<<128>> \o [i \in 1..(BlockLength - 1) |-> 0],
                                   K2(mac.key))

\* C24: the MAC function leaves the array it is given as it was, whatever
\* its length, so that the MAC of one array computed twice under one key
\* is the same tag twice.
MacLeavesMessage ==
  /\ mac.data = mac.orig
  /\ \A i, j \in 1..Len(mac.calls) : mac.calls[i].tag = mac.calls[j].tag


(***************************************************************************)
(* What reaches the sink after a failed chunk                              *)
(***************************************************************************)

\* the AEAD call of every chunk up to chunk n has succeeded
AllOkUpTo(n) == \A m \in 1..n : ops[m].ok

\* the data chunks whose plaintext has been handed to writer.write
HandedToSink ==
  {n \in 1..Len(ops) :
     /\ ~ops[n].final
     /\ \/ \E i \in 1..Len(sink.writes) : sink.writes[i] = n
        \/ chain.writing /\ n = chain.done + 1}

\* C23: when decrypting version 2 data, the plaintext of data chunk n is
\* written to the sink only if the AEAD decryption of every chunk up to n
\* succeeded: nothing of a failed chunk and no plaintext of a chunk after a
\* failed chunk is ever written.
NothingWrittenPastFailure ==
  Decrypting(2) => \A n \in HandedToSink : AllOkUpTo(n)

\* the same for a sink that is a stream
NothingWrittenPastFailureStream ==
  (Decrypting(2) /\ sink.kind = "stream") => \A n \in HandedToSink : AllOkUpTo(n)

\* no output of a chunk whose own decryption failed is written
FailedChunkNeverWritten ==
  Decrypting(2) => \A n \in HandedToSink : ops[n].ok

====
